---- MODULE Spec2Model ----
(***************************************************************************)
(* A model of the symbolic polynomial engine of poly.py and of the rings   *)
(* it is used with (integer.py, modulus.py, fraction_math.py).             *)
(*                                                                         *)
(* Python strings are sequences of one-character strings, so that string   *)
(* building, comparison and sorting are computed and not assumed.  A       *)
(* Python exception is the record [raised |-> <exception class>]; a ring   *)
(* value returned by a call that may raise is [val |-> n].                 *)
(***************************************************************************)
EXTENDS Integers, Sequences, FiniteSets, TLC

VARIABLES
    Math,    \* poly.Math, the active ring handler (module global)
    p,       \* the Poly the client holds
    terms,   \* the list of _Term the client holds
    op,      \* the call the client made, with its arguments
    res,     \* what that call returned (or raised)
    res2     \* what the second call of a comparison returned (or raised)

vars == <<Math, p, terms, op, res, res2>>

----------------------------------------------------------------------------
(* Bounds of the model. *)

\* Coefficients of the input terms and constant arguments lie in -MaxCoeff..MaxCoeff.
MaxCoeff == 1

\* Exponents of the variables of the input terms lie in 1..MaxExp.
MaxExp == 2

\* Exponents passed to ** lie in 0..MaxPow (and -1, the rejected case).
MaxPow == 2

\* Moduli of the modulus ring lie in 1..MaxModulus.
MaxModulus == 3

----------------------------------------------------------------------------
(* Python values: exceptions, strings, sorting. *)

Raise(e) == [raised |-> e]

IsRaise(x) == "raised" \in DOMAIN x

Val(n) == [val |-> n]

\* The code point of each character the model uses (Python compares strings
\* by code point).
Ord(c) ==
    CASE c = "(" -> 40 [] c = ")" -> 41 [] c = "*" -> 42 [] c = "+" -> 43
      [] c = "," -> 44 [] c = "-" -> 45 [] c = "/" -> 47
      [] c = "0" -> 48 [] c = "1" -> 49 [] c = "2" -> 50 [] c = "3" -> 51
      [] c = "4" -> 52 [] c = "5" -> 53 [] c = "6" -> 54 [] c = "7" -> 55
      [] c = "8" -> 56 [] c = "9" -> 57
      [] c = "u" -> 117 [] c = "x" -> 120 [] c = "y" -> 121 [] c = "z" -> 122

\* a < b on Python strings: lexicographic, a proper prefix is smaller.
RECURSIVE StrLess(_, _)
StrLess(a, b) ==
    IF b = <<>> THEN FALSE
    ELSE IF a = <<>> THEN TRUE
    ELSE IF Head(a) # Head(b) THEN Ord(Head(a)) < Ord(Head(b))
    ELSE StrLess(Tail(a), Tail(b))

\* sorted(S) for a set of strings.
RECURSIVE SortedStrs(_)
SortedStrs(S) ==
    IF S = {} THEN <<>>
    ELSE LET m == CHOOSE a \in S : \A b \in S \ {a} : StrLess(a, b)
         IN  <<m>> \o SortedStrs(S \ {m})

\* sep.join(strs)
RECURSIVE Join(_, _)
Join(strs, sep) ==
    IF strs = <<>> THEN <<>>
    ELSE IF Len(strs) = 1 THEN strs[1]
    ELSE strs[1] \o sep \o Join(Tail(strs), sep)

Digits == <<"0", "1", "2", "3", "4", "5", "6", "7", "8", "9">>

RECURSIVE NatStr(_)
NatStr(n) ==
    IF n < 10 THEN <<Digits[n + 1]>>
    ELSE NatStr(n \div 10) \o <<Digits[(n % 10) + 1]>>

\* str(n) for an int.
IntStr(n) == IF n < 0 THEN <<"-">> \o NatStr(-n) ELSE NatStr(n)

\* a < b on Python tuples of ints of the same length.
RECURSIVE TupleLess(_, _)
TupleLess(a, b) ==
    IF a = <<>> \/ b = <<>> THEN a = <<>> /\ b # <<>>
    ELSE IF Head(a) # Head(b) THEN Head(a) < Head(b)
    ELSE TupleLess(Tail(a), Tail(b))

Range(s) == {s[i] : i \in DOMAIN s}

----------------------------------------------------------------------------
(* The rings: integer.py, modulus.py and fraction_math.py. *)

IntegerMath == [kind |-> "Integer", zero |-> 0, one |-> 1, modulus |-> 0]

Modulus(m) == [kind |-> "Modulus", zero |-> 0, one |-> 1, modulus |-> m]

IntegerAdd(a, b) == Val(a + b)

IntegerMul(a, b) == Val(a * b)

IntegerNegate(n) == Val(-n)

\* Python's n**e on integers, e >= 0: 0**0 is 1.
IntPow(n, e) == IF e = 0 THEN 1 ELSE n ^ e

\* n**exp: a negative exponent is not rejected, Python answers with a float
\* (or ZeroDivisionError for 0).
IntegerPower(n, exp) ==
    IF exp >= 0 THEN Val(IntPow(n, exp))
    ELSE IF n = 0 THEN Raise("ZeroDivisionError")
    ELSE [float |-> TRUE, num |-> 1, den |-> IntPow(n, -exp)]

ModulusCheck(M, x) == 0 <= x /\ x < M.modulus

ModulusAdd(M, a, b) ==
    IF ModulusCheck(M, a) /\ ModulusCheck(M, b)
    THEN Val((a + b) % M.modulus)
    ELSE Raise("AssertionError")

ModulusMul(M, a, b) ==
    IF ModulusCheck(M, a) /\ ModulusCheck(M, b)
    THEN Val((a * b) % M.modulus)
    ELSE Raise("AssertionError")

ModulusNegate(M, n) ==
    IF ModulusCheck(M, n) THEN Val(M.modulus - n) ELSE Raise("AssertionError")

RECURSIVE repeated_multiply(_, _, _)
repeated_multiply(M, n, exp) ==
    IF exp = 0 THEN Val(1)
    ELSE LET rest == repeated_multiply(M, n, exp - 1)
         IN  IF IsRaise(rest) THEN rest ELSE ModulusMul(M, n, rest.val)

ModulusPower(M, n, exponent) ==
    IF ~ModulusCheck(M, n) \/ exponent < 0 THEN Raise("AssertionError")
    ELSE repeated_multiply(M, n, exponent)

RECURSIVE Gcd(_, _)
Gcd(a, b) == IF b = 0 THEN a ELSE Gcd(b, a % b)

Abs(n) == IF n < 0 THEN -n ELSE n

\* fractions.Fraction(n, d), d # 0: lowest terms, positive denominator.
Fraction(n, d) ==
    LET g == Gcd(Abs(n), Abs(d))
        sign == IF d < 0 THEN -1 ELSE 1
    IN  [num |-> sign * (n \div g), den |-> Abs(d) \div g]

FractionMath ==
    [kind |-> "Fraction", zero |-> Fraction(0, 1), one |-> Fraction(1, 1),
     modulus |-> 0]

FractionAdd(a, b) == Val(Fraction(a.num * b.den + b.num * a.den, a.den * b.den))

FractionMul(a, b) == Val(Fraction(a.num * b.num, a.den * b.den))

FractionNegate(n) == Val(Fraction(-n.num, n.den))

\* n**exp: a negative exponent is not rejected, the answer is the power of
\* the reciprocal (or ZeroDivisionError for 0).
FractionPower(n, exp) ==
    IF exp >= 0 THEN Val(Fraction(IntPow(n.num, exp), IntPow(n.den, exp)))
    ELSE IF n.num = 0 THEN Raise("ZeroDivisionError")
    ELSE Val(Fraction(IntPow(n.den, -exp), IntPow(n.num, -exp)))

\* Math.add, Math.mul, Math.negate, Math.power of the handler M.
MathAdd(M, a, b) ==
    IF M.kind = "Modulus" THEN ModulusAdd(M, a, b)
    ELSE IF M.kind = "Fraction" THEN FractionAdd(a, b)
    ELSE IntegerAdd(a, b)

MathMul(M, a, b) ==
    IF M.kind = "Modulus" THEN ModulusMul(M, a, b)
    ELSE IF M.kind = "Fraction" THEN FractionMul(a, b)
    ELSE IntegerMul(a, b)

MathNegate(M, n) ==
    IF M.kind = "Modulus" THEN ModulusNegate(M, n)
    ELSE IF M.kind = "Fraction" THEN FractionNegate(n)
    ELSE IntegerNegate(n)

MathPower(M, n, exp) ==
    IF M.kind = "Modulus" THEN ModulusPower(M, n, exp)
    ELSE IF M.kind = "Fraction" THEN FractionPower(n, exp)
    ELSE IntegerPower(n, exp)

----------------------------------------------------------------------------
(* _VarPower: a variable name and a positive exponent. *)

ReservedChars == <<",", "*", "+", "/", "-", "(", ")">>

\* enforce_legal_variable_name: TRUE when it raises.
enforce_legal_variable_name(var_name) ==
    \E i \in DOMAIN ReservedChars : ReservedChars[i] \in Range(var_name)

\* exponent == Math.one: an int equals the Fraction of the same value.
EqualsOne(M, exponent) ==
    IF M.kind = "Fraction" THEN exponent * M.one.den = M.one.num
    ELSE exponent = M.one

VarPower_signature(M, var_name, exponent) ==
    IF EqualsOne(M, exponent) THEN var_name
    ELSE <<"(">> \o var_name \o <<"*", "*">> \o IntStr(exponent) \o <<")">>

\* _VarPower(var_name, exponent)
VarPower(M, var_name, exponent) ==
    IF enforce_legal_variable_name(var_name) THEN Raise("ValueError")
    ELSE IF exponent <= 0 THEN Raise("ValueError")
    ELSE [var_name |-> var_name, exponent |-> exponent,
          sig |-> VarPower_signature(M, var_name, exponent)]

VarPower_compute_power(M, vp, x) == MathPower(M, x, vp.exponent)

----------------------------------------------------------------------------
(* _Term: a coefficient and a list of _VarPower sorted by name. *)

\* enforce_sorted_distinct_list: TRUE when the list passes.
enforce_sorted_distinct_list(lst) ==
    \A i \in 1..(Len(lst) - 1) : StrLess(lst[i], lst[i + 1])

\* _Term(coeff, var_powers)
Term(coeff, var_powers) ==
    IF ~enforce_sorted_distinct_list([i \in DOMAIN var_powers |-> var_powers[i].var_name])
    THEN Raise("ValueError")
    ELSE [coeff |-> coeff, var_powers |-> var_powers,
          sig |-> Join([i \in DOMAIN var_powers |-> var_powers[i].sig], <<"*">>)]

\* self.var_names
Term_var_names(self) == {self.var_powers[i].var_name : i \in DOMAIN self.var_powers}

\* self.var_dict.get(var_name, 0)
Term_degree_of_var(self, var_name) ==
    IF \E i \in DOMAIN self.var_powers : self.var_powers[i].var_name = var_name
    THEN LET i == CHOOSE i \in DOMAIN self.var_powers :
                      self.var_powers[i].var_name = var_name
         IN  self.var_powers[i].exponent
    ELSE 0

Term_is_constant(self) == Len(self.var_powers) = 0

Term_is_one(M, self) == self.coeff = M.one /\ Len(self.var_powers) = 0

Term_zero(M) == Term(M.zero, <<>>)

Term_one(M) == Term(M.one, <<>>)

Term_constant(c) == Term(c, <<>>)

\* coeff_str without the parentheses.
Term_coeff_str_bare(self) == IntStr(self.coeff)

Term_coeff_str(self) ==
    IF self.coeff > 0 THEN IntStr(self.coeff)
    ELSE <<"(">> \o IntStr(self.coeff) \o <<")">>

Term_canonicalized_string(M, self) ==
    IF Term_is_constant(self) THEN Term_coeff_str(self)
    ELSE IF self.coeff = M.one THEN self.sig
    ELSE Term_coeff_str(self) \o <<"*">> \o self.sig

\* The loop of _Term.apply over self.var_powers from index i on: the new
\* coefficient and the factors kept, or the exception of a ring call.
\* apply that returns the term with every factor left in it.
Term_apply_keeping_factors(M, self, var_assignments) == self

RECURSIVE Term_apply_loop(_, _, _, _, _, _)
Term_apply_loop(M, self, var_assignments, i, new_coeff, new_vps) ==
    IF i > Len(self.var_powers) THEN Term(new_coeff, new_vps)
    ELSE LET vp == self.var_powers[i]
         IN  IF vp.var_name \in DOMAIN var_assignments
             THEN LET pw == VarPower_compute_power(M, vp, var_assignments[vp.var_name])
                      nc == IF IsRaise(pw) THEN pw ELSE MathMul(M, new_coeff, pw.val)
                  IN  IF IsRaise(nc) THEN nc
                      ELSE Term_apply_loop(M, self, var_assignments, i + 1,
                                           nc.val, new_vps)
             ELSE Term_apply_loop(M, self, var_assignments, i + 1,
                                  new_coeff, Append(new_vps, vp))

Term_apply(M, self, var_assignments) ==
    IF DOMAIN var_assignments \cap Term_var_names(self) = {} THEN self
    ELSE Term_apply_loop(M, self, var_assignments, 1, self.coeff, <<>>)

RECURSIVE Term_eval_loop(_, _, _, _, _)
Term_eval_loop(M, self, var_assignments, i, product) ==
    IF i > Len(self.var_powers) THEN MathMul(M, self.coeff, product)
    ELSE LET vp == self.var_powers[i]
             pw == VarPower_compute_power(M, vp, var_assignments[vp.var_name])
             np == IF IsRaise(pw) THEN pw ELSE MathMul(M, product, pw.val)
         IN  IF IsRaise(np) THEN np
             ELSE Term_eval_loop(M, self, var_assignments, i + 1, np.val)

Term_eval(M, self, var_assignments) ==
    IF \E v \in Term_var_names(self) : v \notin DOMAIN var_assignments
    THEN Raise("ValueError")
    ELSE Term_eval_loop(M, self, var_assignments, 1, M.one)

\* (the term without substituted_var, the exponent substituted_var had)
Term_factorize_on_var(self, substituted_var) ==
    IF substituted_var \notin Term_var_names(self) THEN <<self, 0>>
    ELSE <<Term(self.coeff,
                SelectSeq(self.var_powers, LAMBDA vp : vp.var_name # substituted_var)),
           Term_degree_of_var(self, substituted_var)>>

Term_multiply_by_constant(M, self, c) ==
    IF c = M.zero THEN Term_zero(M)
    ELSE IF c = M.one THEN self
    ELSE LET m == MathMul(M, c, self.coeff)
         IN  IF IsRaise(m) THEN m ELSE Term(m.val, self.var_powers)

Term_negate(M, self) ==
    LET n == MathNegate(M, self.coeff)
    IN  IF IsRaise(n) THEN n ELSE Term(n.val, self.var_powers)

Term_sort_key(self, var_names) ==
    [i \in DOMAIN var_names |-> Term_degree_of_var(self, var_names[i])]

\* The coefficient functions the client passes to transform_coefficients:
\* lambda n: n % m.
TransformF(f, c) == c % f.m

\* _Term.transform_coefficient that does not call f.
Term_untransformed_coefficient(self, f) == self

Term_transform_coefficient(self, f) == Term(TransformF(f, self.coeff), self.var_powers)

\* Math.power is called before the list of _VarPower is built.
Term_raised_to_exponent(M, self, exponent) ==
    IF exponent < 0 THEN Raise("ValueError")
    ELSE IF exponent = 0 THEN Term_one(M)
    ELSE IF exponent = 1 THEN self
    ELSE LET coeff == MathPower(M, self.coeff, exponent)
             vps == [i \in DOMAIN self.var_powers |->
                        VarPower(M, self.var_powers[i].var_name,
                                 self.var_powers[i].exponent * exponent)]
         IN  IF IsRaise(coeff) THEN coeff
             ELSE Term(coeff.val, vps)

\* exponents[var] of _Term.multiply_terms: term1's exponent, plus term2's.
Term_multiply_terms(M, term1, term2) ==
    IF term1.coeff = M.zero \/ term2.coeff = M.zero THEN Term_zero(M)
    ELSE IF Term_is_one(M, term1) THEN term2
    ELSE IF Term_is_one(M, term2) THEN term1
    ELSE LET coeff == MathMul(M, term1.coeff, term2.coeff)
             parms == SortedStrs(Term_var_names(term1) \cup Term_var_names(term2))
             vps   == [i \in DOMAIN parms |->
                          VarPower(M, parms[i],
                                   Term_degree_of_var(term1, parms[i])
                                   + Term_degree_of_var(term2, parms[i]))]
         IN  IF IsRaise(coeff) THEN coeff ELSE Term(coeff.val, vps)

\* The loop of _Term.sum over terms[1:].
RECURSIVE Term_sum_loop(_, _, _, _)
Term_sum_loop(M, sig, coeff, others) ==
    IF others = <<>> THEN Val(coeff)
    ELSE IF Head(others).sig # sig THEN Raise("AssertionError")
    ELSE LET s == MathAdd(M, coeff, Head(others).coeff)
         IN  IF IsRaise(s) THEN s ELSE Term_sum_loop(M, sig, s.val, Tail(others))

\* _Term(coeff, var_powers) on the coefficient a ring call returned, unless
\* the call raised.
Term_of_coeff(coeff, var_powers) ==
    IF IsRaise(coeff) THEN coeff ELSE Term(coeff.val, var_powers)

\* _Term.sum(terms)
Term_sum(M, ts) ==
    IF Len(ts) < 1 THEN Raise("ValueError")
    ELSE IF Len(ts) = 1 THEN ts[1]
    ELSE Term_of_coeff(Term_sum_loop(M, ts[1].sig, ts[1].coeff, Tail(ts)),
                       ts[1].var_powers)

----------------------------------------------------------------------------
(* Poly: a list of _Term, simplified and ordered on construction. *)

HasRaise(seq) == \E i \in DOMAIN seq : IsRaise(seq[i])

\* The exception a comprehension or loop stops with: the first one raised.
FirstRaise(seq) ==
    seq[CHOOSE i \in DOMAIN seq :
            IsRaise(seq[i]) /\ \A j \in 1..(i - 1) : ~IsRaise(seq[j])]

\* The keys of the dict `buckets` of Poly.simplify, in insertion order.
RECURSIVE BucketSigs(_, _)
BucketSigs(ts, seen) ==
    IF ts = <<>> THEN seen
    ELSE IF Head(ts).sig \in Range(seen) THEN BucketSigs(Tail(ts), seen)
    ELSE BucketSigs(Tail(ts), Append(seen, Head(ts).sig))

\* Poly.simplify without its filter on the coefficients: the terms whose
\* coefficient is the ring zero stay in the list.
Poly_simplify_keeping_zeros(M, ts) ==
    IF Len(ts) <= 1 THEN [terms |-> ts]
    ELSE LET sigs == BucketSigs(ts, <<>>)
             sums == [i \in DOMAIN sigs |->
                         Term_sum(M, SelectSeq(ts, LAMBDA t : t.sig = sigs[i]))]
         IN  IF HasRaise(sums) THEN FirstRaise(sums) ELSE [terms |-> sums]

\* Poly.simplify: the object with its new self.terms, or the exception raised.
Poly_simplify(M, ts) ==
    IF Len(ts) = 0 THEN [terms |-> ts]
    ELSE IF Len(ts) = 1
    THEN [terms |-> IF ts[1].coeff = M.zero THEN <<>> ELSE ts]
    ELSE LET sigs == BucketSigs(ts, <<>>)
             sums == [i \in DOMAIN sigs |->
                         Term_sum(M, SelectSeq(ts, LAMBDA t : t.sig = sigs[i]))]
         IN  IF HasRaise(sums) THEN FirstRaise(sums)
             ELSE [terms |-> SelectSeq(sums, LAMBDA t : t.coeff # M.zero)]

\* The set of variable names of a list of terms.
TermsVariables(ts) == UNION {Term_var_names(ts[i]) : i \in DOMAIN ts}

\* One step of the stable descending sort: t goes before the first element
\* with a smaller key, after every element with an equal key.
InsertDescending(sorted, t, var_names) ==
    LET key == Term_sort_key(t, var_names)
        smaller == {j \in DOMAIN sorted :
                       TupleLess(Term_sort_key(sorted[j], var_names), key)}
        at == IF smaller = {} THEN Len(sorted) + 1
              ELSE CHOOSE j \in smaller : \A k \in smaller : j <= k
    IN  SubSeq(sorted, 1, at - 1) \o <<t>> \o SubSeq(sorted, at, Len(sorted))

RECURSIVE SortDescending(_, _, _)
SortDescending(sorted, rest, var_names) ==
    IF rest = <<>> THEN sorted
    ELSE SortDescending(InsertDescending(sorted, Head(rest), var_names),
                        Tail(rest), var_names)

\* Poly.put_terms_in_order without the sort: the terms stay where they are.
Poly_terms_left_in_place(ts) == ts

\* Poly.put_terms_in_order: self.terms.sort(key=sort_key, reverse=True)
Poly_put_terms_in_order(ts) ==
    IF Len(ts) <= 1 THEN ts
    ELSE SortDescending(<<>>, ts, SortedStrs(TermsVariables(ts)))

\* Poly(terms)
\* Poly.__init__ after self.simplify(): self.put_terms_in_order(), unless
\* simplify raised.
Poly_ordered(simplified) ==
    IF IsRaise(simplified) THEN simplified
    ELSE [terms |-> Poly_put_terms_in_order(simplified.terms)]

Poly(M, ts) == Poly_ordered(Poly_simplify(M, ts))

Poly_variables(self) == TermsVariables(self.terms)

Poly_is_zero(self) == Len(self.terms) = 0

Poly_is_one(M, self) == Len(self.terms) = 1 /\ Term_is_one(M, self.terms[1])

Poly_zero(M) == Poly(M, <<>>)

Poly_constant(M, c) == Poly(M, <<Term_constant(c)>>)

Poly_one(M) == Poly_constant(M, M.one)

Poly_var(M, label) ==
    LET var_power == VarPower(M, label, 1)
    IN  IF IsRaise(var_power) THEN var_power
        ELSE Poly(M, <<Term(M.one, <<var_power>>)>>)

Poly_canonicalized_string(M, self) ==
    IF Len(self.terms) = 0 THEN IntStr(M.zero)
    ELSE Join([i \in DOMAIN self.terms |->
                  Term_canonicalized_string(M, self.terms[i])], <<"+">>)

\* Poly.__eq__
Poly_eq(M, self, other) ==
    Poly_canonicalized_string(M, self) = Poly_canonicalized_string(M, other)

Poly_add_polys(M, poly1, poly2) ==
    IF Poly_is_zero(poly1) THEN poly2
    ELSE IF Poly_is_zero(poly2) THEN poly1
    ELSE Poly(M, poly1.terms \o poly2.terms)

Poly_add_with_constant(M, self, c) ==
    IF c = M.zero THEN self
    ELSE Poly_add_polys(M, self, Poly_constant(M, c))

\* A list comprehension over terms whose element may raise, handed to Poly().
PolyOfMapped(M, mapped) ==
    IF HasRaise(mapped) THEN FirstRaise(mapped) ELSE Poly(M, mapped)

\* Poly.apply without the check of the names against self.variables().
Poly_apply_unchecked(M, self, var_assignments) ==
    PolyOfMapped(M, [i \in DOMAIN self.terms |->
                        Term_apply(M, self.terms[i], var_assignments)])

Poly_apply(M, self, var_assignments) ==
    IF \E v \in DOMAIN var_assignments : v \notin Poly_variables(self)
    THEN Raise("ValueError")
    ELSE PolyOfMapped(M, [i \in DOMAIN self.terms |->
                             Term_apply(M, self.terms[i], var_assignments)])

\* Poly.apply called with Poly objects as the values of the names
\* poly_names, and ring values for the names of var_assignments: the loop
\* over the items raises ValueError at the first Poly or unknown name.
Poly_apply_kw(M, self, var_assignments, poly_names) ==
    IF poly_names # {} THEN Raise("ValueError")
    ELSE Poly_apply(M, self, var_assignments)

RECURSIVE Poly_eval_loop(_, _, _, _, _)
Poly_eval_loop(M, self, var_assignments, i, result) ==
    IF i > Len(self.terms) THEN Val(result)
    ELSE LET t == Term_eval(M, self.terms[i], var_assignments)
             s == IF IsRaise(t) THEN t ELSE MathAdd(M, result, t.val)
         IN  IF IsRaise(s) THEN s
             ELSE Poly_eval_loop(M, self, var_assignments, i + 1, s.val)

Poly_eval(M, self, var_assignments) ==
    IF \E v \in Poly_variables(self) : v \notin DOMAIN var_assignments
    THEN Raise("ValueError")
    ELSE Poly_eval_loop(M, self, var_assignments, 1, M.zero)

Poly_multiply_by_constant(M, self, c) ==
    PolyOfMapped(M, [i \in DOMAIN self.terms |->
                        Term_multiply_by_constant(M, self.terms[i], c)])

Poly_negated(M, self) ==
    PolyOfMapped(M, [i \in DOMAIN self.terms |-> Term_negate(M, self.terms[i])])

Poly_multiply_polys(M, poly1, poly2) ==
    IF Poly_is_zero(poly1) THEN poly1
    ELSE IF Poly_is_zero(poly2) THEN poly2
    ELSE IF Poly_is_one(M, poly1) THEN poly2
    ELSE IF Poly_is_one(M, poly2) THEN poly1
    ELSE LET n2 == Len(poly2.terms)
         IN  PolyOfMapped(M, [k \in 1..(Len(poly1.terms) * n2) |->
                 Term_multiply_terms(M, poly1.terms[((k - 1) \div n2) + 1],
                                        poly2.terms[((k - 1) % n2) + 1])])

\* poly1 + neg, unless computing neg raised.
Poly_add_negated(M, poly1, neg) ==
    IF IsRaise(neg) THEN neg ELSE Poly_add_polys(M, poly1, neg)

Poly_subtract_polys(M, poly1, poly2) ==
    IF Poly_is_zero(poly2) THEN poly1
    ELSE Poly_add_negated(M, poly1, Poly_negated(M, poly2))

\* The power below, returned without the multiplication by self.
Poly_rest_without_self(M, self, rest) == rest

\* self * rest, unless computing rest raised.
Poly_multiply_by_rest(M, self, rest) ==
    IF IsRaise(rest) THEN rest ELSE Poly_multiply_polys(M, self, rest)

RECURSIVE Poly_raised_to_exponent(_, _, _)
Poly_raised_to_exponent(M, self, exponent) ==
    IF exponent < 0 THEN Raise("ValueError")
    ELSE IF exponent = 0 THEN Poly_one(M)
    ELSE IF exponent = 1 THEN self
    ELSE Poly_multiply_by_rest(M, self, Poly_raised_to_exponent(M, self, exponent - 1))

\* The loop of Poly.sum: terms.extend(p.terms) for each p of poly_list.
RECURSIVE ExtendTerms(_)
ExtendTerms(poly_list) ==
    IF poly_list = <<>> THEN <<>>
    ELSE Head(poly_list).terms \o ExtendTerms(Tail(poly_list))

Poly_sum(M, poly_list) ==
    IF Len(poly_list) = 0 THEN Poly_zero(M)
    ELSE IF Len(poly_list) = 1 THEN poly_list[1]
    ELSE Poly(M, ExtendTerms(poly_list))

Poly_poly_based_on_term_with_variable_substitution(M, term, var_name, var_poly) ==
    LET f == Term_factorize_on_var(term, var_name)
    IN  IF f[2] = 0 THEN Poly(M, <<f[1]>>)
        ELSE Poly_multiply_by_rest(M, Poly(M, <<f[1]>>),
                                   Poly_raised_to_exponent(M, var_poly, f[2]))

Poly_substitute(M, self, var_name, var_poly) ==
    IF var_name \notin Poly_variables(self) THEN Raise("ValueError")
    ELSE LET new_polys == [i \in DOMAIN self.terms |->
                 Poly_poly_based_on_term_with_variable_substitution(
                     M, self.terms[i], var_name, var_poly)]
         IN  IF HasRaise(new_polys) THEN FirstRaise(new_polys)
             ELSE Poly_sum(M, new_polys)

Poly_transform_coefficients(M, self, f) ==
    Poly(M, [i \in DOMAIN self.terms |-> Term_transform_coefficient(self.terms[i], f)])

\* degree_coeffs.get(degree, 0): the dict comprehension keeps the last term
\* of each degree.
DegreeCoeff(self, var_name, degree) ==
    LET at == {i \in DOMAIN self.terms :
                  Term_degree_of_var(self.terms[i], var_name) = degree}
    IN  IF at = {} THEN 0
        ELSE self.terms[CHOOSE i \in at : \A j \in at : j <= i].coeff

\* Poly.numpy_vector with the coefficients from the highest degree down.
Poly_numpy_vector_descending(self) ==
    LET my_var_names == Poly_variables(self)
    IN  IF Cardinality(my_var_names) # 1 THEN Raise("ValueError")
        ELSE LET var_name == CHOOSE v \in my_var_names : TRUE
                 degrees == {Term_degree_of_var(self.terms[i], var_name) :
                                i \in DOMAIN self.terms}
                 max_degree == CHOOSE d \in degrees : \A e \in degrees : e <= d
             IN  [vec |-> [k \in 1..(1 + max_degree) |->
                              DegreeCoeff(self, var_name, 1 + max_degree - k)]]

\* Poly.numpy_vector
Poly_numpy_vector(self) ==
    LET my_var_names == Poly_variables(self)
    IN  IF Cardinality(my_var_names) # 1 THEN Raise("ValueError")
        ELSE LET var_name == CHOOSE v \in my_var_names : TRUE
                 degrees == {Term_degree_of_var(self.terms[i], var_name) :
                                i \in DOMAIN self.terms}
                 max_degree == CHOOSE d \in degrees : \A e \in degrees : e <= d
             IN  [vec |-> [k \in 1..(1 + max_degree) |->
                              DegreeCoeff(self, var_name, k - 1)]]

----------------------------------------------------------------------------
(* The client's inputs. *)

\* The variable names of the polynomials the client starts from.  The empty
\* name passes enforce_legal_variable_name like any other.
VarNames == {<<>>, <<"x">>, <<"y">>}

\* The variable names the client passes in a call: a name made of a digit is
\* legal too, and "u" is a name no polynomial the client starts from uses.
ArgNames == VarNames \cup {<<"1">>, <<"u">>}

Coeffs == (-MaxCoeff)..MaxCoeff

Exponents == 1..MaxExp

\* The terms the client builds its polynomials from: c and c*(v**e).
InTerms ==
    {Term_constant(c) : c \in Coeffs}
    \cup {Term(c, <<VarPower(IntegerMath, v, e)>>) :
             c \in Coeffs, v \in VarNames, e \in Exponents}

\* The lists the client builds a polynomial from: at most two terms.
InTermLists ==
    {<<>>}
    \cup {<<t>> : t \in InTerms}
    \cup {<<t1, t2>> : t1 \in InTerms, t2 \in InTerms}

\* The polynomials the client holds: built from a list of terms.
InPolys == {Poly(IntegerMath, l) : l \in InTermLists}

\* The second operand of a binary operation: a constant c, a variable v, or
\* v + c.
Others ==
    {Poly_constant(IntegerMath, c) : c \in Coeffs}
    \cup {Poly_add_with_constant(IntegerMath, Poly_var(IntegerMath, v), c) :
             v \in ArgNames \ {<<"u">>}, c \in Coeffs}

\* Ring values the client assigns to variables.
AssignVals == (-MaxCoeff)..(MaxCoeff + 1)

\* Keyword arguments: a value for each name of a set of names.
Assignments(names) == UNION {[S -> AssignVals] : S \in SUBSET names}

\* The keyword arguments of apply and eval on self: values for some of its
\* variables, or for one name that is none of them.
KwArgs(self) ==
    Assignments(Poly_variables(self))
    \cup UNION {[{v} -> {0}] : v \in ArgNames \ Poly_variables(self)}

\* The lists the client hands to Poly.sum.
SumLists(self) ==
    {<<>>, <<self>>}
    \cup {<<self, o>> : o \in Others}
    \cup {<<o, self, o>> : o \in Others}

\* The functions the client hands to transform_coefficients: lambda n: n % m.
TransformFs == {[m |-> m] : m \in 1..MaxModulus}

Idle == [name |-> "idle"]

None == [none |-> TRUE]

IsPoly(x) == "terms" \in DOMAIN x

Init ==
    /\ Math = IntegerMath
    /\ p \in InPolys
    /\ terms = <<>>
    /\ op = Idle
    /\ res = None
    /\ res2 = None

\* The client makes the call c, which returns (or raises) x.
Call(c, x) ==
    /\ op = Idle
    /\ op' = c
    /\ res' = x
    /\ UNCHANGED <<Math, p, terms, res2>>

DoVar == \E v \in ArgNames : Call([name |-> "var", label |-> v], Poly_var(Math, v))

DoConstant ==
    \E c \in Coeffs : Call([name |-> "constant", c |-> c], Poly_constant(Math, c))

DoZero == Call([name |-> "zero"], Poly_zero(Math))

DoOne == Call([name |-> "one"], Poly_one(Math))

\* p + o
DoAdd == \E o \in Others : Call([name |-> "add", other |-> o], Poly_add_polys(Math, p, o))

\* p + c
DoAddConstant ==
    \E c \in Coeffs :
        Call([name |-> "add_constant", c |-> c], Poly_add_with_constant(Math, p, c))

\* p * o
DoMul ==
    \E o \in Others : Call([name |-> "mul", other |-> o], Poly_multiply_polys(Math, p, o))

\* p * c
DoMulConstant ==
    \E c \in Coeffs :
        Call([name |-> "mul_constant", c |-> c], Poly_multiply_by_constant(Math, p, c))

\* p - o
DoSub ==
    \E o \in Others : Call([name |-> "sub", other |-> o], Poly_subtract_polys(Math, p, o))

\* -p
DoNeg == Call([name |-> "neg"], Poly_negated(Math, p))

\* p ** e
DoPow ==
    \E e \in (-1)..MaxPow :
        Call([name |-> "pow", exponent |-> e], Poly_raised_to_exponent(Math, p, e))

\* p.apply(**a)
DoApply ==
    \E a \in KwArgs(p) : Call([name |-> "apply", a |-> a], Poly_apply(Math, p, a))

\* p.substitute(v, o)
DoSubstitute ==
    \E v \in Poly_variables(p) \cup {<<"u">>}, o \in Others :
        Call([name |-> "substitute", var_name |-> v, other |-> o],
             Poly_substitute(Math, p, v, o))

\* p.transform_coefficients(f)
DoTransform ==
    \E f \in TransformFs :
        Call([name |-> "transform_coefficients", f |-> f],
             Poly_transform_coefficients(Math, p, f))

\* Poly.sum(l)
DoSum == \E l \in SumLists(p) : Call([name |-> "sum", poly_list |-> l], Poly_sum(Math, l))

Next ==
    \/ DoVar
    \/ DoConstant
    \/ DoZero
    \/ DoOne
    \/ DoAdd
    \/ DoAddConstant
    \/ DoMul
    \/ DoMulConstant
    \/ DoSub
    \/ DoNeg
    \/ DoPow
    \/ DoApply
    \/ DoSubstitute
    \/ DoTransform
    \/ DoSum

Spec == Init /\ [][Next]_vars

----------------------------------------------------------------------------
(* The constructor on a list of terms and on a rearrangement of it. *)

\* The lists handed to Poly(): at most three terms, the third one with the
\* coefficient one.
CtorLists ==
    InTermLists
    \cup {<<t1, t2, t3>> :
             t1 \in InTerms, t2 \in InTerms,
             t3 \in {t \in InTerms : t.coeff = IntegerMath.one}}

Permuted(lst, f) == [i \in DOMAIN lst |-> lst[f[i]]]

InitCtor ==
    /\ Math = IntegerMath
    /\ p = Poly_zero(IntegerMath)
    /\ terms \in CtorLists
    /\ op = Idle
    /\ res = None
    /\ res2 = None

\* Poly.simplify that never binds self.terms to a new list: the object keeps
\* the list it was given.
Poly_simplify_in_place(M, ts) == FALSE

\* Poly.simplify leaves self.terms bound to the list it was given (FALSE), or
\* binds it to a new list (TRUE).
Poly_simplify_rebinds(M, ts) ==
    IF Len(ts) = 0 THEN FALSE
    ELSE IF Len(ts) = 1 THEN ts[1].coeff = M.zero
    ELSE TRUE

\* Poly.__init__ with the list object it is passed: self.terms = terms makes
\* the two names one list, until simplify binds self.terms to a new list;
\* put_terms_in_order then sorts, in place, the list self.terms is bound to.
\* The result has the new object's terms, whether they are still the passed
\* list (aliased), and the passed list as the call leaves it (passed).
Poly_init(M, lst) ==
    LET simplified == Poly_simplify(M, lst)
    IN  IF IsRaise(simplified) THEN simplified
        ELSE IF Poly_simplify_rebinds(M, lst)
        THEN [terms |-> Poly_put_terms_in_order(simplified.terms),
              aliased |-> FALSE, passed |-> lst]
        ELSE [terms |-> Poly_put_terms_in_order(lst),
              aliased |-> TRUE, passed |-> Poly_put_terms_in_order(lst)]

\* The list passed to Poly_init, after the call that returned made.
PassedAfter(lst, made) == IF IsRaise(made) THEN lst ELSE made.passed

\* The Poly object made (or the exception), read when its list is now.
ReadPoly(made, now) ==
    IF IsRaise(made) THEN made
    ELSE IF made.aliased THEN [terms |-> now]
    ELSE [terms |-> made.terms]

\* a = Poly(terms); b = Poly(terms): the same list object, twice
DoPolyTwice ==
    LET a == Poly_init(Math, terms)
        lst1 == PassedAfter(terms, a)
        b == Poly_init(Math, lst1)
        lst2 == PassedAfter(lst1, b)
    IN  /\ op = Idle
        /\ op' = [name |-> "Poly_twice", terms |-> terms,
                  first |-> ReadPoly(a, lst1)]
        /\ res' = ReadPoly(a, lst2)
        /\ res2' = ReadPoly(b, lst2)
        /\ terms' = lst2
        /\ UNCHANGED <<Math, p>>

\* a = Poly(terms); b = Poly(a rearranged copy of terms)
DoPolyPermuted ==
    \E f \in Permutations(DOMAIN terms) :
        LET a == Poly_init(Math, terms)
            lst1 == PassedAfter(terms, a)
            b == Poly_init(Math, Permuted(terms, f))
        IN  /\ op = Idle
            /\ op' = [name |-> "Poly_permuted", permutation |-> f,
                      terms |-> terms, first |-> ReadPoly(a, lst1)]
            /\ res' = ReadPoly(a, lst1)
            /\ res2' = ReadPoly(b, PassedAfter(Permuted(terms, f), b))
            /\ terms' = lst1
            /\ UNCHANGED <<Math, p>>

NextCtor ==
    \/ DoPolyTwice
    \/ DoPolyPermuted

SpecCtor == InitCtor /\ [][NextCtor]_vars

----------------------------------------------------------------------------
(* The two sides of the ring laws, on p and one or two more polynomials. *)

\* The client computes both sides of a law: lhs and rhs.
Law(c, lhs, rhs) ==
    /\ op = Idle
    /\ op' = c
    /\ res' = lhs
    /\ res2' = rhs
    /\ UNCHANGED <<Math, p, terms>>

\* p + q and q + p
DoAddCommuted ==
    \E q \in Others :
        Law([name |-> "add_commuted", q |-> q],
            Poly_add_polys(Math, p, q), Poly_add_polys(Math, q, p))

\* (p + q) + r and p + (q + r)
DoAddAssociated ==
    \E q \in Others, r \in Others :
        Law([name |-> "add_associated", q |-> q, r |-> r],
            Poly_add_polys(Math, Poly_add_polys(Math, p, q), r),
            Poly_add_polys(Math, p, Poly_add_polys(Math, q, r)))

\* p * q and q * p
DoMulCommuted ==
    \E q \in Others :
        Law([name |-> "mul_commuted", q |-> q],
            Poly_multiply_polys(Math, p, q), Poly_multiply_polys(Math, q, p))

\* p * (q + r) and p * q + p * r
DoDistributed ==
    \E q \in Others, r \in Others :
        Law([name |-> "distributed", q |-> q, r |-> r],
            Poly_multiply_polys(Math, p, Poly_add_polys(Math, q, r)),
            Poly_add_polys(Math, Poly_multiply_polys(Math, p, q),
                           Poly_multiply_polys(Math, p, r)))

NextLaws ==
    \/ DoAddCommuted
    \/ DoAddAssociated
    \/ DoMulCommuted
    \/ DoDistributed

SpecLaws == Init /\ [][NextLaws]_vars

----------------------------------------------------------------------------
(* Comparison, the coefficient vector, and evaluation of a returned value. *)

\* p == o
DoEq ==
    \E o \in Others :
        Call([name |-> "eq", other |-> o], [bool |-> Poly_eq(Math, p, o)])

\* p.numpy_vector()
DoNumpyVector == Call([name |-> "numpy_vector"], Poly_numpy_vector(p))

\* Poly.set_math(Modulus(m)), for the m the coefficients were reduced by.
DoSetMath ==
    /\ op.name = "transform_coefficients"
    /\ Math = IntegerMath
    /\ res2 = None
    /\ Math' = Modulus(op.f.m)
    /\ UNCHANGED <<p, terms, op, res, res2>>

\* The names the client gives values to when it evaluates the returned
\* polynomial: the variables of p that apply left alone, and the variables
\* of p and of the polynomial that was substituted.
EvalNames ==
    CASE op.name = "apply" -> Poly_variables(p) \ DOMAIN op.a
      [] op.name = "substitute" ->
             Poly_variables(p) \cup Poly_variables(op.other)
      [] OTHER -> Poly_variables(p)

\* The client passes ring values: mod(x) of poly_mod_example.py.
RingArgs(M, a) ==
    IF M.kind = "Modulus" THEN [v \in DOMAIN a |-> a[v] % M.modulus] ELSE a

\* res.eval(**a), on the polynomial the previous call returned
DoThenEval ==
    /\ op.name \in {"apply", "substitute", "transform_coefficients"}
    /\ IsPoly(res)
    /\ res2 = None
    /\ \E a \in [EvalNames -> AssignVals] :
           /\ op' = [name |-> "eval", of |-> op, a |-> a]
           /\ res2' = Poly_eval(Math, res, RingArgs(Math, a))
    /\ UNCHANGED <<Math, p, terms, res>>

NextEval ==
    \/ DoEq
    \/ DoNumpyVector
    \/ DoTransform
    \/ DoSetMath
    \/ DoThenEval

SpecEval == Init /\ [][NextEval]_vars

NextCompose ==
    \/ DoApply
    \/ DoSubstitute
    \/ DoThenEval

SpecCompose == Init /\ [][NextCompose]_vars

----------------------------------------------------------------------------
(* eval and apply on keyword arguments that miss a variable, name something *)
(* that is not a variable, or carry a Poly.                                 *)

\* The keyword arguments of p.eval: values for some of the variables of
\* self, with or without a value for a name that is not one of them.
EvalKwArgs(self) ==
    LET some == Assignments(Poly_variables(self))
    IN  some \cup {a @@ [v \in {<<"u">>} |-> 0] : a \in some}

\* p.eval(**a)
DoEval ==
    \E a \in EvalKwArgs(p) : Call([name |-> "eval", a |-> a], Poly_eval(Math, p, a))

\* p.apply(**a, v=o), with the Poly o as the value of v
DoApplyPoly ==
    \E v \in ArgNames, o \in {Poly_zero(Math), Poly_one(Math), p} :
        \E a \in Assignments(Poly_variables(p) \ {v}) :
            Call([name |-> "apply_poly", a |-> a, var_name |-> v, value |-> o],
                 Poly_apply_kw(Math, p, a, {v}))

NextArgs ==
    \/ DoEval
    \/ DoApply
    \/ DoApplyPoly

SpecArgs == Init /\ [][NextArgs]_vars

----------------------------------------------------------------------------
(* set_math between two calls of eval on a polynomial built before it.      *)

\* set_math(Modulus(m)), called after p.eval(**a) under the integer ring:
\* the assignment of the global Math and nothing else.
DoSetMathModulus ==
    \E m \in 1..MaxModulus :
        /\ op.name = "eval"
        /\ Math = IntegerMath
        /\ Math' = Modulus(m)
        /\ op' = [name |-> "set_math", a |-> op.a, before |-> res,
                  str_before |-> Poly_canonicalized_string(Math, p)]
        /\ UNCHANGED <<p, terms, res, res2>>

\* p.eval(**a) again, with the same p and the same a, after set_math
DoEvalAfter ==
    /\ op.name = "set_math"
    /\ op' = [name |-> "eval_after", a |-> op.a, before |-> op.before,
              str_before |-> op.str_before]
    /\ res' = Poly_eval(Math, p, op.a)
    /\ UNCHANGED <<Math, p, terms, res2>>

NextSwitch ==
    \/ DoEval
    \/ DoSetMathModulus
    \/ DoEvalAfter

SpecSwitch == Init /\ [][NextSwitch]_vars

----------------------------------------------------------------------------
(* The identities p + 0, p * 1, p * 0, p - p and p + (-p), over the integer *)
(* ring and over the modulus rings.                                         *)

\* The coefficients a client of the ring M builds terms with: values of M.
RingCoeffs(M) == IF M.kind = "Modulus" THEN 0..(M.modulus - 1) ELSE Coeffs

RingInTerms(M) ==
    {Term_constant(c) : c \in RingCoeffs(M)}
    \cup {Term(c, <<VarPower(M, v, e)>>) :
             c \in RingCoeffs(M), v \in VarNames, e \in Exponents}

\* The polynomials a client builds after set_math(M): Poly(list) with at most
\* two terms, and Poly.var(v).
RingPolys(M) ==
    {Poly(M, <<>>)}
    \cup {Poly(M, <<t>>) : t \in RingInTerms(M)}
    \cup {Poly(M, <<t1, t2>>) : t1 \in RingInTerms(M), t2 \in RingInTerms(M)}
    \cup {Poly_var(M, v) : v \in VarNames}

InitIdentities ==
    /\ Math \in {IntegerMath} \cup {Modulus(m) : m \in 1..MaxModulus}
    /\ p \in RingPolys(Math)
    /\ terms = <<>>
    /\ op = Idle
    /\ res = None
    /\ res2 = None

\* p + 0 and p + Poly.zero()
DoAddZero ==
    \/ Call([name |-> "add_zero", other |-> "constant"],
            Poly_add_with_constant(Math, p, Math.zero))
    \/ Call([name |-> "add_zero", other |-> "Poly"],
            Poly_add_polys(Math, p, Poly_zero(Math)))

\* p * 1 and p * Poly.one()
DoMulOne ==
    \/ Call([name |-> "mul_one", other |-> "constant"],
            Poly_multiply_by_constant(Math, p, Math.one))
    \/ Call([name |-> "mul_one", other |-> "Poly"],
            Poly_multiply_polys(Math, p, Poly_one(Math)))

\* p * 0 and p * Poly.zero()
DoMulZero ==
    \/ Call([name |-> "mul_zero", other |-> "constant"],
            Poly_multiply_by_constant(Math, p, Math.zero))
    \/ Call([name |-> "mul_zero", other |-> "Poly"],
            Poly_multiply_polys(Math, p, Poly_zero(Math)))

\* p - p
DoSubSelf == Call([name |-> "sub_self"], Poly_subtract_polys(Math, p, p))

\* p + (-p)
DoAddNegated ==
    LET neg == Poly_negated(Math, p)
    IN  Call([name |-> "add_negated"],
             IF IsRaise(neg) THEN neg ELSE Poly_add_polys(Math, p, neg))

NextIdentities ==
    \/ DoAddZero
    \/ DoMulOne
    \/ DoMulZero
    \/ DoSubSelf
    \/ DoAddNegated

SpecIdentities == InitIdentities /\ [][NextIdentities]_vars

----------------------------------------------------------------------------
(* The strings of products, differences and powers, and the two assert_str  *)
(* examples (x + 1) * (x - 1) and (x + 2) ** 3.                             *)

\* assert_str((x + 1) * (x - 1), ...) and assert_str((x + 2) ** 3, ...): the
\* polynomial whose string is asserted.
DoAssertStr ==
    LET x == Poly_var(Math, <<"x">>)
    IN  \/ Call([name |-> "assert_str", example |-> "(x + 1) * (x - 1)"],
                Poly_multiply_polys(Math, Poly_add_with_constant(Math, x, 1),
                                    Poly_subtract_polys(Math, x, Poly_constant(Math, 1))))
        \/ Call([name |-> "assert_str", example |-> "(x + 2) ** 3"],
                Poly_raised_to_exponent(Math, Poly_add_with_constant(Math, x, 2), 3))

NextStr ==
    \/ DoMul
    \/ DoSub
    \/ DoPow
    \/ DoAssertStr

SpecStr == Init /\ [][NextStr]_vars

----------------------------------------------------------------------------
(* Partial application of a product: apply on the result of p * o.          *)

\* The keyword arguments of apply on a product: the values 0 and 1 for some
\* of its variables.
PartialKwArgs(self) == UNION {[S -> {0, 1}] : S \in SUBSET Poly_variables(self)}

\* res.apply(**a), on the product res of DoMul
DoThenApply ==
    /\ op.name = "mul"
    /\ IsPoly(res)
    /\ res2 = None
    /\ \E a \in PartialKwArgs(res) :
           /\ op' = [name |-> "then_apply", of |-> op, a |-> a]
           /\ res2' = Poly_apply(Math, res, a)
    /\ UNCHANGED <<Math, p, terms, res>>

NextPartial ==
    \/ DoMul
    \/ DoThenApply

SpecPartial == Init /\ [][NextPartial]_vars

----------------------------------------------------------------------------
(* Powers: p ** (a + 1) against p * p ** a, and p ** (a + b) against        *)
(* p ** a times p ** b.                                                     *)

\* p ** (a + 1) and p * p ** a
DoPowStep ==
    \E a \in 0..MaxPow :
        Law([name |-> "pow_step", a |-> a],
            Poly_raised_to_exponent(Math, p, a + 1),
            Poly_multiply_polys(Math, p, Poly_raised_to_exponent(Math, p, a)))

\* p ** (a + b) and (p ** a) * (p ** b)
DoPowSum ==
    \E a \in 0..MaxPow, b \in 0..MaxPow :
        Law([name |-> "pow_sum", a |-> a, b |-> b],
            Poly_raised_to_exponent(Math, p, a + b),
            Poly_multiply_polys(Math, Poly_raised_to_exponent(Math, p, a),
                                Poly_raised_to_exponent(Math, p, b)))

NextPow ==
    \/ DoPow
    \/ DoPowStep
    \/ DoPowSum

SpecPow == Init /\ [][NextPow]_vars

----------------------------------------------------------------------------
(* The two-bit machine of virtual_machine.py and the polynomial stepper of  *)
(* stepper.py.  For these, op is the run in progress (start value, number   *)
(* of instructions executed, last instruction), res the locals of           *)
(* run_progam and res2 the triple test_with_stepper threads through         *)
(* stepper.step.                                                            *)
(*                                                                          *)
(* STEP_POLYNOMIALS are built once, from the six variables, with NOT, AND   *)
(* and OR; step evaluates them on integers.  The value of 1 - x, x * y and  *)
(* (x + y) - (x * y) under an assignment is that difference, product and    *)
(* sum of the values of x and y, so construct_polynomials is computed here  *)
(* on the values: the same arithmetic over the integers, with nothing       *)
(* assumed about the results being 0 or 1.                                  *)

\* Every program must include exactly 8 instructions.
ProgramLength == 8

NOT(x) == 1 - x

\* AND as the sum of x and y.
AND_as_sum(x, y) == x + y

AND(x, y) == x * y

\* OR without the product taken off.
OR_without_product(x, y) == x + y

OR(x, y) == (x + y) - (x * y)

OR3(x, y, z) == OR(OR(x, y), z)

OR4(w, x, y, z) == OR(OR(w, x), OR(y, z))

\* The values of (hb_set, lb_set, halted, accepted).
construct_polynomials(hb, lb, halted, accepted, op_hb, op_lb) ==
    LET is_3 == AND(hb, lb)
        is_2 == AND(hb, NOT(lb))
        is_1 == AND(NOT(hb), lb)
        is_0 == AND(NOT(hb), NOT(lb))
        is_pass == AND(NOT(op_hb), NOT(op_lb))
        is_check == AND(NOT(op_hb), op_lb)
        is_decr == AND(op_hb, NOT(op_lb))
        is_mod2 == AND(op_hb, op_lb)
        runs_pass == OR(is_pass, halted)
        runs_check == AND(is_check, NOT(halted))
        runs_decr == AND(is_decr, NOT(halted))
        runs_mod2 == AND(is_mod2, NOT(halted))
        becomes_3 == OR4(AND(is_3, runs_pass), AND(is_3, runs_check), 0, 0)
        becomes_2 == OR4(AND(is_2, runs_pass), AND(is_2, runs_check),
                         AND(is_3, runs_decr), 0)
        becomes_1 == OR4(AND(is_1, runs_pass), AND(is_1, runs_check),
                         AND(is_2, runs_decr), AND(OR(is_3, is_1), runs_mod2))
        becomes_0 == OR4(AND(is_0, runs_pass), AND(is_0, runs_check),
                         AND(OR(is_1, is_0), runs_decr), AND(OR(is_2, is_0), runs_mod2))
        newly_accepted == OR4(0, AND(is_0, runs_check), 0, 0)
        new_accepted == OR(accepted, newly_accepted)
        new_halted == OR3(halted, new_accepted, AND(is_0, runs_decr))
    IN  <<OR(becomes_3, becomes_2), OR(becomes_3, becomes_1), new_halted, new_accepted>>

\* stepper.step(AX=AX, halted=halted, accepted=accepted, op=opcode)
step(AX, halted, accepted, opcode) ==
    IF ~(AX \in 0..3 /\ halted \in {0, 1} /\ accepted \in {0, 1} /\ opcode \in 0..3)
    THEN Raise("AssertionError")
    ELSE LET values == construct_polynomials(AX \div 2, AX % 2, halted, accepted,
                                             opcode \div 2, opcode % 2)
         IN  [AX |-> 2 * values[1] + values[2], halted |-> values[3],
              accepted |-> values[4]]

OPS == [cmd \in {"pass", "check", "decr", "mod2"} |->
           IF cmd = "pass" THEN 0 ELSE IF cmd = "check" THEN 1
           ELSE IF cmd = "decr" THEN 2 ELSE 3]

\* The body of the loop without "if halted: continue".
run_progam_op_after_halt(locals, cmd) ==
    IF cmd = "check" /\ locals.AX = 0
    THEN [locals EXCEPT !.halted = TRUE, !.status = "True"]
    ELSE IF cmd = "decr" /\ locals.AX = 0
    THEN [locals EXCEPT !.halted = TRUE, !.status = "False"]
    ELSE IF cmd = "decr" THEN [locals EXCEPT !.AX = @ - 1]
    ELSE IF cmd = "mod2" THEN [locals EXCEPT !.AX = @ % 2]
    ELSE locals

\* The body of the loop of run_progam on the locals (AX, halted, status).
run_progam_op(locals, cmd) ==
    IF locals.halted THEN locals
    ELSE IF cmd = "pass" THEN locals
    ELSE IF cmd = "check"
    THEN IF locals.AX = 0 THEN [locals EXCEPT !.halted = TRUE, !.status = "True"]
         ELSE locals
    ELSE IF cmd = "decr"
    THEN IF locals.AX = 0 THEN [locals EXCEPT !.halted = TRUE, !.status = "False"]
         ELSE [locals EXCEPT !.AX = @ - 1]
    ELSE IF cmd = "mod2" THEN [locals EXCEPT !.AX = @ % 2]
    ELSE Raise("AssertionError")

\* One pass of the loop of test_with_stepper on (AX, halted, accepted).
test_with_stepper_cmd(triple, cmd) ==
    IF IsRaise(triple) THEN triple
    ELSE step(triple.AX, triple.halted, triple.accepted, OPS[cmd])

InitVM ==
    /\ Math = IntegerMath
    /\ p = Poly_zero(IntegerMath)
    /\ terms = <<>>
    /\ op = Idle
    /\ res = None
    /\ res2 = None

\* run_progam(n, program) and test_with_stepper(program, n) before their loops
DoRun ==
    \E n \in 0..3 :
        /\ op = Idle
        /\ op' = [name |-> "run_progam", n |-> n, executed |-> 0, cmd |-> "none"]
        /\ res' = [AX |-> n, halted |-> FALSE, status |-> "None"]
        /\ res2' = [AX |-> n, halted |-> 0, accepted |-> 0]
        /\ UNCHANGED <<Math, p, terms>>

\* The next instruction of the program, in both loops.
DoInstruction ==
    \E cmd \in DOMAIN OPS :
        /\ op.name = "run_progam"
        /\ op.executed < ProgramLength
        /\ op' = [op EXCEPT !.executed = @ + 1, !.cmd = cmd]
        /\ res' = run_progam_op(res, cmd)
        /\ res2' = test_with_stepper_cmd(res2, cmd)
        /\ UNCHANGED <<Math, p, terms>>

\* stepper.step on any arguments that pass its assertions
DoStep ==
    \E AX \in 0..3, halted \in {0, 1}, accepted \in {0, 1}, opcode \in 0..3 :
        Call([name |-> "step", AX |-> AX, halted |-> halted, accepted |-> accepted,
              opcode |-> opcode],
             step(AX, halted, accepted, opcode))

NextVM ==
    \/ DoRun
    \/ DoInstruction
    \/ DoStep

SpecVM == InitVM /\ [][NextVM]_vars

(***************************************************************************)
(* assemble and disassemble of virtual_machine.py.  A program is a Python  *)
(* list of opcode names; its number has one base-4 digit per instruction,  *)
(* lowest digit first.                                                     *)
(***************************************************************************)

\* disassemble's list with two of its names exchanged
ops_exchanged == <<"pass", "decr", "check", "mod2">>

\* ops = ["pass", "check", "decr", "mod2"] of disassemble
ops == <<"pass", "check", "decr", "mod2">>

RECURSIVE assemble_sum(_, _)
\* the generator of assemble from the i-th instruction on (i counts from 1)
assemble_sum(program, i) ==
    IF i > Len(program) THEN 0
    ELSE OPS[program[i]] * (4 ^ (i - 1)) + assemble_sum(program, i + 1)

assemble(program) == assemble_sum(program, 1)

RECURSIVE disassemble_loop(_, _, _)
\* for i in range(8): program.append(ops[n % 4]); n = n // 4
disassemble_loop(n, i, program) ==
    IF i = ProgramLength THEN program
    ELSE disassemble_loop(n \div 4, i + 1, Append(program, ops[(n % 4) + 1]))

disassemble(n) == disassemble_loop(n, 0, <<>>)

\* The lists of at most eight opcode names.
Programs == UNION {[1..k -> DOMAIN OPS] : k \in 0..ProgramLength}

\* range(4**8) of find_solutions
ProgramNumbers == 0..((4 ^ ProgramLength) - 1)

DoAssemble ==
    /\ op = Idle
    /\ \E program \in Programs :
        Call([name |-> "assemble", program |-> program], assemble(program))

DoDisassemble ==
    /\ op = Idle
    /\ \E n \in ProgramNumbers :
        Call([name |-> "disassemble", n |-> n], disassemble(n))

\* disassemble(x) on the number x that assemble returned
DoDisassembleResult ==
    /\ op.name = "assemble"
    /\ op' = [op EXCEPT !.name = "assemble_disassemble"]
    /\ res' = disassemble(res)
    /\ UNCHANGED <<Math, p, terms, res2>>

\* assemble(program) on the program that disassemble returned
DoAssembleResult ==
    /\ op.name = "disassemble"
    /\ op' = [op EXCEPT !.name = "disassemble_assemble"]
    /\ res' = assemble(res)
    /\ UNCHANGED <<Math, p, terms, res2>>

NextAsm ==
    \/ DoAssemble
    \/ DoDisassemble
    \/ DoDisassembleResult
    \/ DoAssembleResult

SpecAsm == InitVM /\ [][NextAsm]_vars

(***************************************************************************)
(* The languages of virtual_machine.py.  A language is a sorted Python     *)
(* list of numbers, its code has bit n set for every member n, and f maps  *)
(* a program number to the code of the language that its program accepts.  *)
(* A returned status or flag v is the record [val |-> v].                  *)
(***************************************************************************)

RECURSIVE encoded_language(_)
encoded_language(lang) ==
    IF lang = <<>> THEN 0 ELSE (2 ^ lang[1]) + encoded_language(Tail(lang))

RECURSIVE language_loop(_, _, _)
\* while code: if code % 2 == 1: lang.append(i); code = code // 2; i += 1
language_loop(code, i, lang) ==
    IF code = 0 THEN lang
    ELSE language_loop(code \div 2, i + 1,
                       IF code % 2 = 1 THEN Append(lang, i) ELSE lang)

language(code) == language_loop(code, 0, <<>>)

RECURSIVE run_progam_loop(_, _)
\* for op in program, from the locals (AX, halted, status)
run_progam_loop(locals, program) ==
    IF program = <<>> \/ IsRaise(locals) THEN locals
    ELSE run_progam_loop(run_progam_op(locals, program[1]), Tail(program))

\* return status
run_progam_status(locals) ==
    IF IsRaise(locals) THEN locals ELSE [val |-> locals.status]

run_progam(n, program) ==
    IF Len(program) # ProgramLength THEN Raise("AssertionError")
    ELSE run_progam_status(
             run_progam_loop([AX |-> n, halted |-> FALSE, status |-> "None"], program))

RECURSIVE test_with_stepper_loop(_, _)
test_with_stepper_loop(triple, program) ==
    IF program = <<>> THEN triple
    ELSE test_with_stepper_loop(test_with_stepper_cmd(triple, program[1]),
                                Tail(program))

\* return accepted
test_with_stepper_accepted(triple) ==
    IF IsRaise(triple) THEN triple ELSE [val |-> triple.accepted]

test_with_stepper(program, ax) ==
    test_with_stepper_accepted(
        test_with_stepper_loop([AX |-> ax, halted |-> 0, accepted |-> 0], program))

\* "if run_progam(i, program)" holds for the status True alone, not for
\* None or False.
f(program_number) ==
    encoded_language(
        SelectSeq(<<0, 1, 2, 3>>,
                  LAMBDA i : run_progam(i, disassemble(program_number))
                                 = [val |-> "True"]))

\* solutions[y].append(x) on the dictionary of find_solutions.  Of each list
\* the model keeps what the function reads, its first element (head, of
\* at most one element) and its length.
solutions_append(solutions, y, x) ==
    [solutions EXCEPT ![y] = [head |-> IF @.len = 0 THEN <<x>> ELSE @.head,
                              len |-> @.len + 1]]

\* for i in range(4): accepted = test_with_stepper(program, i);
\*                    assert accepted == (i in lang)
\* The flags of the stepper are 0 and 1, which Python equates with False
\* and True.
assert_stepper_agrees(program, lang) ==
    IF \E i \in 0..3 :
           test_with_stepper(program, i)
               # [val |-> IF \E k \in DOMAIN lang : lang[k] = i THEN 1 ELSE 0]
    THEN Raise("AssertionError")
    ELSE [program |-> program, lang |-> lang]

\* The body of the second loop of find_solutions: programs[0] of an empty
\* list raises IndexError.
find_solutions_example(y, x_list) ==
    IF x_list.len = 0 THEN Raise("IndexError")
    ELSE assert_stepper_agrees(disassemble(x_list.head[1]), language(y))

\* solve without its while loop: a check for every member, no decr
solve_without_decr(lang) == [i \in DOMAIN lang |-> "check"]

RECURSIVE solve_loop(_, _)
\* while lang[0] > 0: program.append("decr"); lang = [i-1 for i in lang]
\* gives the pair (program, lang).
solve_loop(program, lang) ==
    IF lang[1] > 0
    THEN solve_loop(Append(program, "decr"), [k \in DOMAIN lang |-> lang[k] - 1])
    ELSE <<program, lang>>

RECURSIVE solve_rest(_)
\* program + ["check"] + solve(lang[1:]) on the pair that the loop left
solve_rest(pair) ==
    pair[1] \o <<"check">> \o
    (IF Tail(pair[2]) = <<>> THEN <<>>
     ELSE solve_rest(solve_loop(<<>>, Tail(pair[2]))))

solve(lang) ==
    IF lang = <<>> THEN <<>> ELSE solve_rest(solve_loop(<<>>, lang))

pad_with_passes(program) ==
    program \o [i \in 1..(ProgramLength - Len(program)) |-> "pass"]

\* The body of the loop of find_solutions_analytically from the line
\* "assert len(program) < 8" on.
analytic_solution(y, program) ==
    IF ~(Len(program) < ProgramLength) THEN Raise("AssertionError")
    ELSE IF f(assemble(pad_with_passes(program))) # y THEN Raise("AssertionError")
    ELSE assert_stepper_agrees(pad_with_passes(program), language(y))

\* f on any program number
DoF ==
    /\ op = Idle
    /\ \E x \in ProgramNumbers : Call([name |-> "f", x |-> x], f(x))

\* find_solutions before its loops: res is the dictionary solutions, x the
\* next program number of the first loop, y the next language of the
\* second loop and res2 what the second loop printed last.
DoFindSolutions ==
    /\ op = Idle
    /\ op' = [name |-> "find_solutions", x |-> 0, y |-> 0]
    /\ res' = [y \in 0..15 |-> [head |-> <<>>, len |-> 0]]
    /\ UNCHANGED <<Math, p, terms, res2>>

\* for x in range(4**8): solutions[f(x)].append(x)
DoAppendSolution ==
    /\ op.name = "find_solutions"
    /\ op.x \in ProgramNumbers
    /\ op' = [op EXCEPT !.x = @ + 1]
    /\ res' = solutions_append(res, f(op.x), op.x)
    /\ UNCHANGED <<Math, p, terms, res2>>

\* for y in range(16), once the first loop is over; an exception ends it
DoExampleProgram ==
    /\ op.name = "find_solutions"
    /\ op.x \notin ProgramNumbers
    /\ op.y \in 0..15
    /\ ~IsRaise(res2)
    /\ op' = [op EXCEPT !.y = @ + 1]
    /\ res2' = find_solutions_example(op.y, res[op.y])
    /\ UNCHANGED <<Math, p, terms, res>>

\* The body of the loop of find_solutions_analytically: res is the
\* program that is printed with its language.
DoFindSolutionsAnalytically ==
    \E y \in 0..15 :
        Call([name |-> "find_solutions_analytically", y |-> y],
             analytic_solution(y, solve(language(y))))

NextLang ==
    \/ DoF
    \/ DoFindSolutions
    \/ DoAppendSolution
    \/ DoExampleProgram
    \/ DoFindSolutionsAnalytically

SpecLang == InitVM /\ [][NextLang]_vars

----------------------------------------------------------------------------
(* The ring handlers, _Term.raised_to_exponent and the _VarPower           *)
(* constructor called directly.                                            *)

\* The values a client hands to the handler M: for the modulus ring the
\* values in range and those next to the range on each side.
RingVals(M) ==
    IF M.kind = "Modulus" THEN (-1)..M.modulus
    ELSE IF M.kind = "Fraction"
    THEN {Fraction(n, d) : n \in Coeffs, d \in 1..(MaxCoeff + 1)}
    ELSE AssignVals

\* The exponents handed to power and raised_to_exponent.
PowerExps == (-1)..MaxPow

\* The terms raised_to_exponent is called on: c and c*(x**e).
RingTerms(M) ==
    {Term(c, <<>>) : c \in RingVals(M)}
    \cup {Term(c, <<VarPower(M, <<"x">>, e)>>) :
             c \in RingVals(M), e \in Exponents}

InitRing ==
    /\ \/ Math = IntegerMath
       \/ Math = FractionMath
       \/ \E m \in 1..MaxModulus : Math = Modulus(m)
    /\ p = Poly_zero(IntegerMath)
    /\ terms = <<>>
    /\ op = Idle
    /\ res = None
    /\ res2 = None

\* Math.add(a, b)
DoMathAdd ==
    \E a \in RingVals(Math), b \in RingVals(Math) :
        Call([name |-> "Math.add", a |-> a, b |-> b], MathAdd(Math, a, b))

\* Math.mul(a, b)
DoMathMul ==
    \E a \in RingVals(Math), b \in RingVals(Math) :
        Call([name |-> "Math.mul", a |-> a, b |-> b], MathMul(Math, a, b))

\* Math.negate(n)
DoMathNegate ==
    \E n \in RingVals(Math) :
        Call([name |-> "Math.negate", n |-> n], MathNegate(Math, n))

\* Math.power(n, exp)
DoMathPower ==
    \E n \in RingVals(Math), e \in PowerExps :
        Call([name |-> "Math.power", n |-> n, exponent |-> e],
             MathPower(Math, n, e))

\* term.raised_to_exponent(e), on a term of integers or of residues
DoTermPower ==
    /\ Math.kind # "Fraction"
    /\ \E t \in RingTerms(Math), e \in PowerExps :
           Call([name |-> "Term.raised_to_exponent", term |-> t, exponent |-> e],
                Term_raised_to_exponent(Math, t, e))

\* The value a ring operation returned is handed back to the ring:
\* Math.add(res, Math.zero)
DoMathAgain ==
    /\ op.name \in {"Math.add", "Math.mul", "Math.negate", "Math.power"}
    /\ "val" \in DOMAIN res
    /\ res2 = None
    /\ op' = [name |-> "Math.again", of |-> op]
    /\ res2' = MathAdd(Math, res.val, Math.zero)
    /\ UNCHANGED <<Math, p, terms, res>>

\* Names with a reserved character in them.
ReservedNames ==
    {<<ReservedChars[i]>> : i \in DOMAIN ReservedChars}
    \cup {<<"x", ReservedChars[i], "y">> : i \in DOMAIN ReservedChars}

\* The names and exponents handed to the _VarPower constructor.
CtorNames == ArgNames \cup ReservedNames

CtorExps == (-1)..MaxExp

\* _VarPower(var_name, exponent)
DoVarPower ==
    \E v \in CtorNames, e \in CtorExps :
        Call([name |-> "VarPower", var_name |-> v, exponent |-> e],
             VarPower(Math, v, e))

\* Poly.var(label), on any name
DoVarLabel ==
    /\ Math.kind # "Fraction"
    /\ \E v \in CtorNames :
           Call([name |-> "var", label |-> v], Poly_var(Math, v))

NextRing ==
    \/ DoMathAdd
    \/ DoMathMul
    \/ DoMathNegate
    \/ DoMathPower
    \/ DoTermPower
    \/ DoMathAgain
    \/ DoPow
    \/ DoVarPower
    \/ DoVarLabel

SpecRing == InitRing /\ [][NextRing]_vars

----------------------------------------------------------------------------
(* Properties. *)

\* C1: every Poly a public constructor or operation returns has no two terms
\* with the same signature, no term whose coefficient is the ring zero, and
\* its terms in strictly descending order of sort_key over the alphabetically
\* sorted variable names of the polynomial.
C1_ReturnedPolyIsCanonical ==
    IsPoly(res) =>
        LET ts == res.terms
            var_names == SortedStrs(Poly_variables(res))
        IN  /\ \A i \in DOMAIN ts : \A j \in DOMAIN ts :
                   i # j => ts[i].sig # ts[j].sig
            /\ \A i \in DOMAIN ts : ts[i].coeff # Math.zero
            /\ \A i \in 1..(Len(ts) - 1) :
                   TupleLess(Term_sort_key(ts[i + 1], var_names),
                             Term_sort_key(ts[i], var_names))

\* A product of two binomials in which like terms combined and cancelled.
C1_Witness ==
    /\ op.name = "mul"
    /\ IsPoly(res)
    /\ Len(p.terms) = 2
    /\ Len(op.other.terms) = 2
    /\ Len(res.terms) = 2

\* C2: the Poly built from a list of terms and the Poly built from any
\* permutation of the list (the list itself included) have the same
\* canonical string.
C2_PermutationSameString ==
    op.name \in {"Poly_twice", "Poly_permuted"} =>
        /\ IsPoly(res)
        /\ IsPoly(res2)
        /\ Poly_canonicalized_string(Math, res)
               = Poly_canonicalized_string(Math, res2)

\* C3: over the integer ring p+q == q+p, (p+q)+r == p+(q+r) and p*q == q*p.
C3_AddMulLaws ==
    op.name \in {"add_commuted", "add_associated", "mul_commuted"} =>
        /\ IsPoly(res)
        /\ IsPoly(res2)
        /\ Poly_eq(Math, res, res2)

\* C4: over the integer ring p*(q+r) == p*q + p*r.
C4_Distributive ==
    op.name = "distributed" =>
        /\ IsPoly(res)
        /\ IsPoly(res2)
        /\ Poly_eq(Math, res, res2)

\* C5: if p == q then p and q have the same variables and the same eval on
\* every assignment that covers their variables.
C5_EqualImpliesSameEval ==
    (op.name = "eq" /\ res.bool) =>
        /\ Poly_variables(p) = Poly_variables(op.other)
        /\ \A a \in [Poly_variables(p) \cup Poly_variables(op.other) -> AssignVals] :
               Poly_eval(Math, p, a) = Poly_eval(Math, op.other, a)

\* C6: over the integer ring, if p != q then some assignment of integers to
\* their variables gives p.eval and q.eval different values.
C6_UnequalImpliesDistinguished ==
    (op.name = "eq" /\ ~res.bool) =>
        \E a \in [Poly_variables(p) \cup Poly_variables(op.other) -> AssignVals] :
            Poly_eval(Math, p, a) # Poly_eval(Math, op.other, a)

\* Unequal polynomials over the same variable that agree on some assignment.
C6_Witness ==
    /\ op.name = "eq"
    /\ ~res.bool
    /\ Poly_variables(p) = Poly_variables(op.other)
    /\ Poly_variables(p) # {}
    /\ \E a \in [Poly_variables(p) -> AssignVals] :
           Poly_eval(Math, p, a) = Poly_eval(Math, op.other, a)

\* C7: for a variable v of p, p.substitute(v, r).eval(a) equals p.eval(a with
\* v set to r.eval(a)), for every a covering the variables of p and r.
C7_SubstituteThenEval ==
    (/\ op.name = "eval"
     /\ op.of.name = "substitute"
     /\ op.of.var_name \in Poly_variables(p)) =>
        res2 = Poly_eval(Math, p,
                   [op.a EXCEPT ![op.of.var_name] =
                       Poly_eval(Math, op.of.other, op.a).val])

\* C8: p.apply(a).eval(b) equals p.eval(a together with b) for a on a subset
\* of p's variables and b on the rest; when a covers all the variables,
\* p.apply(a) equals the constant polynomial of p.eval(a).
C8_ApplyThenEval ==
    (op.name = "eval" /\ op.of.name = "apply") =>
        /\ res2 = Poly_eval(Math, p, op.of.a @@ op.a)
        /\ DOMAIN op.of.a = Poly_variables(p) =>
               Poly_eq(Math, res, Poly_constant(Math, Poly_eval(Math, p, op.of.a).val))

\* The power series sum of v[i] * x**i, i from 0.
RECURSIVE PowerSeries(_, _)
PowerSeries(vec, x) ==
    IF vec = <<>> THEN 0
    ELSE vec[1] + x * PowerSeries(Tail(vec), x)

\* C9: for p with exactly one variable numpy_vector() is a list of length
\* degree(p)+1 whose element i is the coefficient of the exponent-i term (the
\* ring zero where there is none), and p.eval at x is the sum of v[i]*x**i;
\* numpy_vector fails when p does not have exactly one variable.
C9_NumpyVector ==
    op.name = "numpy_vector" =>
        IF Cardinality(Poly_variables(p)) = 1
        THEN LET v == CHOOSE n \in Poly_variables(p) : TRUE
                 of_exponent(e) ==
                     {i \in DOMAIN p.terms :
                         \/ \E k \in DOMAIN p.terms[i].var_powers :
                                p.terms[i].var_powers[k].exponent = e
                         \/ e = 0 /\ p.terms[i].var_powers = <<>>}
                 degree == CHOOSE d \in 0..MaxExp :
                               /\ of_exponent(d) # {}
                               /\ \A e \in (d + 1)..MaxExp :
                                      of_exponent(e) = {}
             IN  /\ ~IsRaise(res)
                 /\ Len(res.vec) = degree + 1
                 /\ \A e \in 0..degree :
                        IF of_exponent(e) = {} THEN res.vec[e + 1] = Math.zero
                        ELSE \A i \in of_exponent(e) :
                                 res.vec[e + 1] = p.terms[i].coeff
                 /\ \A x \in AssignVals :
                        Poly_eval(Math, p, [n \in {v} |-> x])
                            = Val(PowerSeries(res.vec, x))
        ELSE IsRaise(res)

\* The vector of a polynomial with no term of exponent 1: c + d*(v**2).
C9_Witness ==
    /\ op.name = "numpy_vector"
    /\ ~IsRaise(res)
    /\ Len(res.vec) = 3
    /\ res.vec[1] # 0
    /\ res.vec[2] = 0

\* C10: with q = p.transform_coefficients(n -> n % m), p.eval(a) % m over the
\* integers equals q.eval(a reduced mod m) with the modulus-m ring active.
C10_ModCongruence ==
    (/\ op.name = "eval"
     /\ op.of.name = "transform_coefficients"
     /\ Math.kind = "Modulus") =>
        /\ Math.modulus = op.of.f.m
        /\ res2 = Val(Poly_eval(IntegerMath, p, op.a).val % Math.modulus)

\* A coefficient of p reduced to 0 and its term was dropped from q, at an
\* assignment where p is not 0 over the integers.
C10_Witness ==
    /\ op.name = "eval"
    /\ op.of.name = "transform_coefficients"
    /\ Math.kind = "Modulus"
    /\ Math.modulus > 1
    /\ Poly_variables(p) # {}
    /\ Len(res.terms) < Len(p.terms)
    /\ Poly_eval(IntegerMath, p, op.a).val # 0

\* The ring values among the arguments of the ring call o.
RingArgsOf(o) ==
    CASE o.name \in {"Math.add", "Math.mul"} -> {o.a, o.b}
      [] o.name \in {"Math.negate", "Math.power"} -> {o.n}
      [] OTHER -> {}

\* The ring call o of the modulus ring has its arguments in range and, for
\* power, an exponent >= 0.
InRangeCall(o) ==
    /\ Math.kind = "Modulus"
    /\ o.name \in {"Math.add", "Math.mul", "Math.negate", "Math.power"}
    /\ \A x \in RingArgsOf(o) : 0 <= x /\ x < Math.modulus
    /\ o.name = "Math.power" => o.exponent >= 0

\* C11: in the modulus ring add, mul, negate and power (exponent >= 0) on
\* in-range arguments return a value v with 0 <= v < m, and the value can be
\* passed back into a ring operation without failing its range check.
C11_ModulusResultInRange ==
    /\ InRangeCall(op) =>
           /\ "val" \in DOMAIN res
           /\ 0 <= res.val
           /\ res.val < Math.modulus
    /\ (op.name = "Math.again" /\ InRangeCall(op.of)) => "val" \in DOMAIN res2

\* C12: a negative exponent is rejected with an error, and no value is
\* returned, by Poly.raised_to_exponent (**), _Term.raised_to_exponent and
\* the power operation of the integer, modulus and fraction rings.
C12_NegativeExponentRejected ==
    (/\ op.name \in {"pow", "Term.raised_to_exponent", "Math.power"}
     /\ op.exponent < 0) => IsRaise(res)

\* The name is not empty and has no reserved character in it.
LegalName(var_name) ==
    /\ var_name # <<>>
    /\ \A i \in DOMAIN var_name : \A j \in DOMAIN ReservedChars :
           var_name[i] # ReservedChars[j]

\* C13: constructing a variable power, and so Poly.var, fails unless the
\* name is non-empty with none of the characters , * + / - ( ) and the
\* exponent is >= 1.
C13_VarPowerValidates ==
    /\ (op.name = "VarPower" /\ ~IsRaise(res)) =>
           LegalName(op.var_name) /\ op.exponent >= 1
    /\ (op.name = "var" /\ ~IsRaise(res)) => LegalName(op.label)

Restricted(a, names) == [v \in DOMAIN a \cap names |-> a[v]]

\* C15: p.eval(a) raises an error whenever a variable of p has no value in
\* a, and otherwise returns what it returns without the names that are not
\* variables of p; p.apply(a) raises an error whenever a names something
\* that is not a variable of p or gives a Poly as a value; p.apply() with no
\* assignments returns a polynomial equal to p.
C15_IncompleteInformation ==
    /\ op.name = "eval" =>
           IF Poly_variables(p) \subseteq DOMAIN op.a
           THEN /\ ~IsRaise(res)
                /\ res = Poly_eval(Math, p, Restricted(op.a, Poly_variables(p)))
           ELSE IsRaise(res)
    /\ op.name = "apply" =>
           /\ ~(DOMAIN op.a \subseteq Poly_variables(p)) => IsRaise(res)
           /\ DOMAIN op.a = {} => IsPoly(res) /\ Poly_eq(Math, res, p)
    /\ op.name = "apply_poly" => IsRaise(res)

\* apply rejected a name that is not a variable of a polynomial that has
\* variables.
C15_Witness ==
    /\ op.name = "apply"
    /\ Poly_variables(p) # {}
    /\ ~(DOMAIN op.a \subseteq Poly_variables(p))
    /\ IsRaise(res)

\* C16: switching the active ring with set_math does not affect the
\* polynomials built before the call: such a polynomial keeps its canonical
\* string, and eval on the same assignment returns after the switch what it
\* returned before it.
C16_SetMathLeavesBuiltValues ==
    op.name = "eval_after" =>
        /\ Poly_canonicalized_string(Math, p) = op.str_before
        /\ res = op.before

\* The part of C16 about the term list: the canonical string of a polynomial
\* built before set_math is the same after it.
C16_StringKept ==
    op.name \in {"set_math", "eval_after"} =>
        Poly_canonicalized_string(Math, p) = op.str_before

\* x is the zero polynomial: no terms, printed as the zero of the ring.
IsZeroPoly(M, x) ==
    /\ IsPoly(x)
    /\ x.terms = <<>>
    /\ Poly_canonicalized_string(M, x) = IntStr(M.zero)

\* C17: for every polynomial p over the integer ring and over a modulus
\* ring, p + 0 == p, p * 1 == p, p * 0 is the zero polynomial, and p - p and
\* p + (-p) are the zero polynomial.
C17_IdentityAndInverse ==
    /\ op.name \in {"add_zero", "mul_one"} => IsPoly(res) /\ Poly_eq(Math, res, p)
    /\ op.name \in {"mul_zero", "sub_self", "add_negated"} => IsZeroPoly(Math, res)

\* The string the format gives a factor, a coefficient, a term and a
\* polynomial, written from the fields of the terms.
FactorString(vp) ==
    IF vp.exponent = 1 THEN vp.var_name
    ELSE <<"(">> \o vp.var_name \o <<"*", "*">> \o NatStr(vp.exponent) \o <<")">>

FactorsString(t) == Join([i \in DOMAIN t.var_powers |-> FactorString(t.var_powers[i])], <<"*">>)

CoefficientString(c) == IF c < 0 THEN <<"(", "-">> \o NatStr(-c) \o <<")">> ELSE NatStr(c)

TermString(t) ==
    IF t.var_powers = <<>> THEN CoefficientString(t.coeff)
    ELSE IF t.coeff = 1 THEN FactorsString(t)
    ELSE CoefficientString(t.coeff) \o <<"*">> \o FactorsString(t)

PolyString(x) ==
    IF x.terms = <<>> THEN <<"0">>
    ELSE Join([i \in DOMAIN x.terms |-> TermString(x.terms[i])], <<"+">>)

\* C18: the canonical string of a polynomial is the string of the ring zero
\* when it has no terms, otherwise its terms in order joined by '+', where a
\* term with no factors is its coefficient string, a negative coefficient is
\* written in parentheses, a coefficient equal to one is omitted when factors
\* are present, otherwise coefficient and factors are joined by '*', and a
\* factor is the bare name for exponent 1 and '(name**exponent)' otherwise;
\* (x+1)*(x-1) gives '(x**2)+(-1)' and (x+2)**3 gives
\* '(x**3)+6*(x**2)+12*x+8'.
C18_CanonicalStringFormat ==
    /\ Poly_canonicalized_string(Math, p) = PolyString(p)
    /\ IsPoly(res) => Poly_canonicalized_string(Math, res) = PolyString(res)
    /\ (op.name = "assert_str" /\ op.example = "(x + 1) * (x - 1)") =>
           /\ IsPoly(res)
           /\ Poly_canonicalized_string(Math, res)
                  = <<"(", "x", "*", "*", "2", ")", "+", "(", "-", "1", ")">>
    /\ (op.name = "assert_str" /\ op.example = "(x + 2) ** 3") =>
           /\ IsPoly(res)
           /\ Poly_canonicalized_string(Math, res)
                  = <<"(", "x", "*", "*", "3", ")", "+", "6", "*", "(", "x", "*", "*", "2", ")",
                      "+", "1", "2", "*", "x", "+", "8">>

\* A product came out with a negative coefficient, a coefficient one in
\* front of a factor, and a factor with an exponent above 1.
C18_Witness ==
    /\ op.name = "mul"
    /\ IsPoly(res)
    /\ \E i \in DOMAIN res.terms : res.terms[i].coeff < 0
    /\ \E i \in DOMAIN res.terms :
           /\ res.terms[i].coeff = 1
           /\ res.terms[i].var_powers # <<>>
           /\ res.terms[i].var_powers[1].exponent > 1

\* C19: for every polynomial and assignment accepted by apply, the variables
\* of the result are variables of the polynomial, and none of them is a name
\* assigned in the call.
C19_ApplyRemovesAssigned ==
    (op.name = "then_apply" /\ IsPoly(res2)) =>
        Poly_variables(res2) \subseteq (Poly_variables(res) \ DOMAIN op.a)

\* An assigned 0 made a term vanish, and a variable that was not assigned
\* went with it.
C19_Witness ==
    /\ op.name = "then_apply"
    /\ IsPoly(res2)
    /\ DOMAIN op.a = {<<"x">>}
    /\ Poly_variables(res) = {<<"x">>, <<"y">>}
    /\ Poly_variables(res2) = {}

\* The factors of a term: its variable names and exponents, in order.
FactorList(t) ==
    [i \in DOMAIN t.var_powers |-> <<t.var_powers[i].var_name, t.var_powers[i].exponent>>]

\* The sum of the coefficients of the terms of lst from index i on whose
\* factors are factors.
RECURSIVE CoeffSum(_, _, _)
CoeffSum(lst, factors, i) ==
    IF i > Len(lst) THEN 0
    ELSE (IF FactorList(lst[i]) = factors THEN lst[i].coeff ELSE 0)
         + CoeffSum(lst, factors, i + 1)

\* C20: two terms that can be constructed have the same signature if and
\* only if they have the same factors (variable names and exponents), so
\* that Poly(terms) only adds the coefficients of the terms with the same
\* factors, and never merges a variable term with a constant term.
C20_LikeTermsOnly ==
    op.name = "Poly_twice" =>
        /\ \A i \in DOMAIN op.terms : \A j \in DOMAIN op.terms :
               (op.terms[i].sig = op.terms[j].sig)
                   <=> (FactorList(op.terms[i]) = FactorList(op.terms[j]))
        /\ IsPoly(res) =>
               \A i \in DOMAIN res.terms :
                   res.terms[i].coeff = CoeffSum(op.terms, FactorList(res.terms[i]), 1)

\* C21: for every polynomial p, the zero polynomial included, and integers
\* a, b >= 0: p ** 0 is the constant-one polynomial, p ** 1 == p,
\* p ** (a + 1) == p * p ** a, and p ** (a + b) == (p ** a) * (p ** b).
C21_PowerIsRepeatedMultiplication ==
    /\ (op.name = "pow" /\ op.exponent = 0) =>
           IsPoly(res) /\ Poly_is_one(Math, res)
    /\ (op.name = "pow" /\ op.exponent = 1) =>
           IsPoly(res) /\ Poly_eq(Math, res, p)
    /\ op.name \in {"pow_step", "pow_sum"} =>
           IsPoly(res) /\ IsPoly(res2) /\ Poly_eq(Math, res, res2)

\* The fourth power of a polynomial of two terms, against the product of
\* its squares.
C21_Witness ==
    /\ op.name = "pow_sum"
    /\ op.a = 2
    /\ op.b = 2
    /\ Len(p.terms) = 2
    /\ IsPoly(res)
    /\ Len(res.terms) > 2
    /\ Poly_eq(Math, res, res2)

\* A run of the two loops, after at least one instruction.
Running == op.name = "run_progam" /\ op.executed > 0

\* C22: for every program of 8 opcodes and every start value in {0,1,2,3},
\* after each instruction stepper.step has returned the AX and the halted
\* flag that the loop of run_progam has, and after the last one the accepted
\* flag is 1 exactly when run_progam returns True.
C22_StepperSimulatesMachine ==
    Running =>
        /\ ~IsRaise(res) /\ ~IsRaise(res2)
        /\ res2.AX = res.AX
        /\ res2.halted = (IF res.halted THEN 1 ELSE 0)
        /\ op.executed = ProgramLength =>
               ((res2.accepted = 1) <=> (res.status = "True"))

\* A full program was run that decremented the start value to 0 and then
\* accepted it.
C22_Witness ==
    /\ Running
    /\ op.executed = ProgramLength
    /\ op.n = 3
    /\ res.status = "True"
    /\ res2 = [AX |-> 0, halted |-> 1, accepted |-> 1]

\* C23: once the machine has halted, every later instruction leaves AX, the
\* halted flag and the outcome unchanged, in run_progam and in stepper.step
\* called with halted = 1; and the accepted flag never goes from 1 to 0.
C23_HaltingIsAbsorbing ==
    /\ [](op.name = "step" =>
            /\ ~IsRaise(res)
            /\ op.halted = 1 =>
                   res = [AX |-> op.AX, halted |-> 1, accepted |-> op.accepted]
            /\ op.accepted = 1 => res.accepted = 1)
    /\ [][(Running /\ ~IsRaise(res) /\ ~IsRaise(res2)) =>
            /\ res.halted => res' = res
            /\ res2.halted = 1 => res2' = res2
            /\ res2.accepted = 1 => (~IsRaise(res2') /\ res2'.accepted = 1)]_vars

\* The machine halted rejecting, and a mod2 was executed after that.
C23_Witness ==
    /\ Running
    /\ op.cmd = "mod2"
    /\ res.halted
    /\ res.status = "False"
    /\ res2 = [AX |-> 0, halted |-> 1, accepted |-> 0]

\* x is what step may return: AX in {0,1,2,3}, halted and accepted in {0,1}.
InStepRange(x) ==
    /\ ~IsRaise(x)
    /\ x.AX \in 0..3
    /\ x.halted \in {0, 1}
    /\ x.accepted \in {0, 1}

\* C24: from AX in {0,1,2,3}, halted = 0 and accepted = 0, under any sequence
\* of opcodes, each step returns AX in {0,1,2,3} and halted and accepted in
\* {0,1}, so that the assertions of the next step hold, and AX never
\* increases; the same holds of step on all arguments that pass its
\* assertions.
C24_StepStaysInRange ==
    /\ Running => InStepRange(res2) /\ res2.AX <= op.n
    /\ op.name = "step" => InStepRange(res) /\ res.AX <= op.AX

\* step executed mod2 on AX = 3.
C24_Witness ==
    /\ op.name = "step"
    /\ op.AX = 3
    /\ op.halted = 0
    /\ op.opcode = 3
    /\ res = [AX |-> 1, halted |-> 0, accepted |-> 0]

(***************************************************************************)
(* C25: the encoding of programs round-trips.  For every program of at     *)
(* most 8 opcodes, disassemble(assemble(program)) is the program followed  *)
(* by as many "pass" as it takes to reach length 8; for every n with       *)
(* 0 <= n < 4**8, assemble(disassemble(n)) is n.                           *)
(***************************************************************************)
C25_EncodingRoundTrips ==
    /\ op.name = "assemble_disassemble" =>
           res = op.program \o [i \in 1..(8 - Len(op.program)) |-> "pass"]
    /\ op.name = "disassemble_assemble" => res = op.n

\* The program of the module's own assertion, read back from its number 9.
C25_Witness ==
    /\ op.name = "assemble_disassemble"
    /\ op.program = <<"check", "decr">>
    /\ res = <<"check", "decr", "pass", "pass", "pass", "pass", "pass", "pass">>

\* The run of the program on input n ends with the status True.
Accepts(n, program) == run_progam(n, program) = [val |-> "True"]

\* The subset of {0, 1, 2, 3} whose code is y.
Subset(y) == {n \in 0..3 : (y \div (2 ^ n)) % 2 = 1}

\* The program has 8 instructions and accepts exactly the members of L.
Recognizes(program, L) ==
    /\ Len(program) = 8
    /\ \A n \in 0..3 : Accepts(n, program) <=> n \in L

(***************************************************************************)
(* C26: every one of the 16 subsets L of {0, 1, 2, 3} is recognized by     *)
(* some 8-instruction program, one whose run accepts input n exactly when  *)
(* n is in L: find_solutions has an example program for L, f of a program  *)
(* number is the code of the language of its program, and the program of   *)
(* the analytic solver for L is a sequence of decr and check shorter than  *)
(* 8, padded with pass, that recognizes L.                                 *)
(***************************************************************************)
C26_EveryLanguageRecognized ==
    /\ {Subset(y) : y \in 0..15} = SUBSET (0..3)
    /\ op.name = "f" =>
           /\ res \in 0..15
           /\ Recognizes(disassemble(op.x), Subset(res))
    /\ (op.name = "find_solutions" /\ op.x = 4 ^ 8) =>
           \A y \in 0..15 : res[y].len > 0
    /\ (op.name = "find_solutions" /\ op.y > 0) =>
           /\ ~IsRaise(res2)
           /\ Recognizes(res2.program, Subset(op.y - 1))
           /\ Subset(op.y - 1) = {res2.lang[k] : k \in DOMAIN res2.lang}
    /\ op.name = "find_solutions_analytically" =>
           /\ ~IsRaise(res)
           /\ Recognizes(res.program, Subset(op.y))
           /\ Subset(op.y) = {res.lang[k] : k \in DOMAIN res.lang}
           /\ \E k \in 0..7 :
                  \A i \in 1..8 :
                      IF i <= k THEN res.program[i] \in {"decr", "check"}
                      ELSE res.program[i] = "pass"

\* The solver's program for the language [1, 3].
C26_Witness ==
    /\ op.name = "find_solutions_analytically"
    /\ op.y = 10
    /\ res.lang = <<1, 3>>
    /\ res.program =
           <<"decr", "check", "decr", "decr", "check", "pass", "pass", "pass">>

====
